---- MODULE Spec2Model ----
(***************************************************************************)
(* A state-machine model of src/train.py: the training loop train_agent,   *)
(* the plotting helper plot_scores and the driver main.                    *)
(*                                                                         *)
(* Numbers.  Scores, rewards and thresholds are integers.  The running     *)
(* mean of a window w is never stored: the comparison mean(w) >= th is     *)
(* computed as SeqSum(w) >= th * Len(w), which is what the floating-point  *)
(* comparison decides for integer scores and windows of at most 100        *)
(* entries.  Epsilon values are fixed-point numbers in units of            *)
(* 1/EpsUnits; the product eps_decay * eps is rounded to the nearest       *)
(* representable value, ties to even, as the floating-point product is.    *)
(***************************************************************************)
EXTENDS Integers, Sequences, FiniteSets, TLC

\* ---------------------------------------------------------------- bounds
MaxEpisodes == 3
MaxT == 2
EpsUnits == 4
LongExtra == 30

\* ------------------------------------------------------ program constants
\* deque(maxlen=100), and running_window_size=100 in main's call
WindowLen == 100
\* success_thresh=13. default of train_agent
DefaultSuccessThresh == 13
\* max_t=1000 default of train_agent
DefaultMaxT == 1000

VARIABLES
    pc,             \* position in main / train_agent
    caller,         \* "main": train_agent was called by main; "direct": by a test
    args,           \* the parsed command line (main only)
    output_is_dir,  \* output_folder.is_dir()
    envProc,        \* the UnityEnvironment process: "none", "open", "closed"
    envModel,       \* how the external environment behaves in this run
    envResets,      \* number of env.reset calls served
    envT,           \* number of env.step calls served since the last reset
    envObs,         \* the observation the environment returned last
    n_episodes, max_t, eps_start, eps_end, eps_decay, success_thresh,
    scores, scores_window, eps, success, i_episode,
    state, score, t, action, next_state, reward, done,
    solvedMsgs,     \* the episodes at which 'Solved in ...' was written
    epRewards,      \* the rewards env.step returned since the last reset
    lastCall,       \* the last call made on the environment or the agent
    prevCall,       \* the call made before lastCall
    nCalls,         \* how many such calls train_agent has made
    returned,       \* the list train_agent returned (main's variable scores)
    saved,          \* model.pt has been written
    plotMark        \* what plot_scores marked

envVars == <<envProc, envModel, envResets, envT, envObs>>
params == <<n_episodes, max_t, eps_start, eps_end, eps_decay, success_thresh>>
runVars == <<scores, scores_window, eps, success, i_episode>>
stepVars == <<state, score, t, action, next_state, reward, done>>
ghostVars == <<solvedMsgs, epRewards, lastCall, prevCall, nCalls>>
mainVars == <<caller, args, output_is_dir, returned, saved, plotMark>>
vars == <<pc, envVars, params, runVars, stepVars, ghostVars, mainVars>>

\* ------------------------------------------------------------- arithmetic
RECURSIVE SumUpTo(_, _)
SumUpTo(s, i) == IF i = 0 THEN 0 ELSE SumUpTo(s, i - 1) + s[i]
\* the sum of the entries of s (np.mean's numerator; score += reward unrolled)
SeqSum(s) == SumUpTo(s, Len(s))

Max(a, b) == IF a >= b THEN a ELSE b

\* a * b for fixed-point a, b >= 0 in units of 1/EpsUnits: the exact product
\* rounded to the nearest unit, ties to even
MulRound(a, b) ==
    LET p == a * b
        q == p \div EpsUnits
        r == p % EpsUnits
    IN  IF 2 * r < EpsUnits THEN q
        ELSE IF 2 * r > EpsUnits THEN q + 1
        ELSE IF q % 2 = 0 THEN q ELSE q + 1

\* np.mean(w) >= th, for a non-empty w
MeanGE(w, th) == SeqSum(w) >= th * Len(w)
\* np.mean(w) > th, for a non-empty w
MeanGT(w, th) == SeqSum(w) > th * Len(w)

\* s[lo:hi] of Python, 0 <= lo <= hi <= len(s)
Slice(s, lo, hi) == SubSeq(s, lo + 1, hi)

\* ------------------------------------------------- the collaborators
Observations == {0, 1}
Actions == {0, 1}
FreeRewards == {0, 1}

NoCall == [fn |-> "none", state |-> 0, eps |-> 0, action |-> 0, reward |-> 0,
           next_state |-> 0, done |-> FALSE]

\* A free environment answers every step with any reward of FreeRewards and
\* any done signal, and ends an episode at its horizon at the latest.  A stub
\* environment ends every episode after one step with a reward that depends
\* on the number of the episode: r1 up to episode a, r2 up to episode b, r3
\* afterwards.
FreeEnv(h) == [kind |-> "free", horizon |-> h, a |-> 0, b |-> 0,
               r1 |-> 0, r2 |-> 0, r3 |-> 0]
StubEnv(a, b, r1, r2, r3) == [kind |-> "stub", horizon |-> 1, a |-> a, b |-> b,
                              r1 |-> r1, r2 |-> r2, r3 |-> r3]

StubReward(m, e) == IF e <= m.a THEN m.r1 ELSE IF e <= m.b THEN m.r2 ELSE m.r3

EnvRewards == IF envModel.kind = "free" THEN FreeRewards
              ELSE {StubReward(envModel, envResets)}
EnvDones == IF envT + 1 >= envModel.horizon THEN {TRUE} ELSE BOOLEAN

\* -------------------------------------------------------------- plotting
NoMark == [found |-> FALSE, x |-> 0, marked |-> FALSE]

\* plot_scores, lines 111-124: the first index whose running average is
\* strictly above the threshold gives success_x = idx + 1 and success_y = the
\* average; the marker is drawn when both are truthy (non-zero)
PlotScores(sc, running_window_size, th) ==
    LET win(idx) == Slice(sc, Max(0, idx - running_window_size + 1), idx + 1)
        hits == {idx \in 0..(Len(sc) - 1) : MeanGT(win(idx), th)}
    IN  IF hits = {} THEN NoMark
        ELSE LET i == CHOOSE h \in hits : \A g \in hits : h <= g
             IN  [found |-> TRUE, x |-> i + 1,
                  marked |-> (i + 1 # 0) /\ (SeqSum(win(i)) # 0)]

\* ----------------------------------------------------------- train_agent
\* mutant of DequeAppend: a list instead of a bounded deque
DequeAppendUnbounded(w, s) == Append(w, s)

\* scores_window.append(score) on a deque(maxlen=100)
DequeAppend(w, s) ==
    IF Len(w) >= WindowLen THEN Append(Tail(w), s) ELSE Append(w, s)

\* mutant of NextEps: the floor is forgotten
NextEpsNoFloor(e, e_end, e_decay) == MulRound(e_decay, e)

\* eps = max(eps_end, eps_decay * eps)
NextEps(e, e_end, e_decay) == Max(e_end, MulRound(e_decay, e))

\* mutant of Solves: the test on the flag is forgotten
SolvesAgain(succ, w, th) == MeanGE(w, th)

\* mutant of Solves: a strict comparison
SolvesStrict(succ, w, th) == (~succ) /\ MeanGT(w, th)

\* (not success) and running_mean >= success_thresh
Solves(succ, w, th) == (~succ) /\ MeanGE(w, th)

\* mutant of AfterStep: the break is forgotten
AfterStepNoBreak(d) == "ta_inner"

\* if done: break
AfterStep(d) == IF d THEN "ta_end" ELSE "ta_inner"

\* lines 51-57: the locals set up before the episode loop
TrainAgentBegin ==
    /\ pc = "ta_call"
    /\ scores' = <<>>
    /\ scores_window' = <<>>
    /\ eps' = eps_start
    /\ success' = FALSE
    /\ i_episode' = 0
    /\ pc' = "ta_loop"
    /\ UNCHANGED <<envVars, params, stepVars, ghostVars, mainVars>>

\* lines 58-64: the next episode starts with env.reset
EpisodeReset ==
    /\ pc = "ta_loop"
    /\ i_episode < n_episodes
    /\ envProc = "open"
    /\ i_episode' = i_episode + 1
    /\ \E o \in Observations :
        /\ envObs' = o
        /\ state' = o
    /\ envResets' = envResets + 1
    /\ envT' = 0
    /\ score' = 0
    /\ t' = 0
    /\ epRewards' = <<>>
    /\ lastCall' = [NoCall EXCEPT !.fn = "env.reset"]
    /\ prevCall' = lastCall
    /\ nCalls' = nCalls + 1
    /\ pc' = "ta_inner"
    /\ UNCHANGED <<envProc, envModel, params, scores, scores_window, eps, success,
                   action, next_state, reward, done, solvedMsgs, mainVars>>

\* lines 65-66: for _ in range(max_t): action = agent.act(state, eps)
Act ==
    /\ pc = "ta_inner"
    /\ t < max_t
    /\ \E a \in Actions : action' = a
    /\ lastCall' = [NoCall EXCEPT !.fn = "agent.act", !.state = state, !.eps = eps]
    /\ prevCall' = lastCall
    /\ nCalls' = nCalls + 1
    /\ pc' = "ta_envstep"
    /\ UNCHANGED <<envVars, params, runVars, state, score, t, next_state, reward,
                   done, solvedMsgs, epRewards, mainVars>>

\* line 65: range(max_t) is exhausted
StepsExhausted ==
    /\ pc = "ta_inner"
    /\ t >= max_t
    /\ pc' = "ta_end"
    /\ UNCHANGED <<envVars, params, runVars, stepVars, ghostVars, mainVars>>

\* lines 69-73: env.step(action) and the reading of its answer
EnvStep ==
    /\ pc = "ta_envstep"
    /\ envProc = "open"
    /\ \E o \in Observations, r \in EnvRewards, d \in EnvDones :
        /\ envObs' = o
        /\ next_state' = o
        /\ reward' = r
        /\ done' = d
        /\ epRewards' = Append(epRewards, r)
    /\ envT' = envT + 1
    /\ lastCall' = [NoCall EXCEPT !.fn = "env.step", !.action = action]
    /\ prevCall' = lastCall
    /\ nCalls' = nCalls + 1
    /\ pc' = "ta_agentstep"
    /\ UNCHANGED <<envProc, envModel, envResets, params, runVars, state, score, t,
                   action, solvedMsgs, mainVars>>

\* mutant of AgentStep: state = next_state is forgotten
AgentStepStaleState ==
    /\ pc = "ta_agentstep"
    /\ lastCall' = [fn |-> "agent.step", state |-> state, eps |-> 0,
                    action |-> action, reward |-> reward,
                    next_state |-> next_state, done |-> done]
    /\ prevCall' = lastCall
    /\ nCalls' = nCalls + 1
    /\ score' = score + reward
    /\ t' = t + 1
    /\ pc' = IF done THEN "ta_end" ELSE "ta_inner"
    /\ UNCHANGED <<envVars, params, runVars, state, action, next_state, reward,
                   done, solvedMsgs, epRewards, mainVars>>

\* lines 75-80: agent.step, the score and state updates, the break on done
AgentStep ==
    /\ pc = "ta_agentstep"
    /\ lastCall' = [fn |-> "agent.step", state |-> state, eps |-> 0,
                    action |-> action, reward |-> reward,
                    next_state |-> next_state, done |-> done]
    /\ prevCall' = lastCall
    /\ nCalls' = nCalls + 1
    /\ score' = score + reward
    /\ state' = next_state
    /\ t' = t + 1
    /\ pc' = AfterStep(done)
    /\ UNCHANGED <<envVars, params, runVars, action, next_state, reward, done,
                   solvedMsgs, epRewards, mainVars>>

\* lines 82-94: the end of an episode
EpisodeEnd ==
    /\ pc = "ta_end"
    /\ scores_window' = DequeAppend(scores_window, score)
    /\ scores' = Append(scores, score)
    /\ eps' = NextEps(eps, eps_end, eps_decay)
    /\ IF Solves(success, scores_window', success_thresh)
       THEN /\ solvedMsgs' = Append(solvedMsgs, i_episode)
            /\ success' = TRUE
       ELSE UNCHANGED <<solvedMsgs, success>>
    /\ pc' = "ta_loop"
    /\ UNCHANGED <<envVars, params, i_episode, stepVars, epRewards, lastCall,
                   prevCall, nCalls, mainVars>>

\* mutant of Return: the loop stops as soon as the run is solved
ReturnWhenSolved ==
    /\ pc = "ta_loop"
    /\ (i_episode >= n_episodes \/ success)
    /\ returned' = scores
    /\ pc' = IF caller = "main" THEN "main_out" ELSE "ta_returned"
    /\ UNCHANGED <<envVars, params, runVars, stepVars, ghostVars, caller, args,
                   output_is_dir, saved, plotMark>>

\* line 96: return scores (to main, line 176, or to a direct caller)
Return ==
    /\ pc = "ta_loop"
    /\ i_episode >= n_episodes
    /\ returned' = scores
    /\ pc' = IF caller = "main" THEN "main_out" ELSE "ta_returned"
    /\ UNCHANGED <<envVars, params, runVars, stepVars, ghostVars, caller, args,
                   output_is_dir, saved, plotMark>>

\* ------------------------------------------------------------------ main
NoArgs == [success_threshold |-> 0, episodes |-> 0, eps_start |-> 0,
           eps_end |-> 0, eps_decay |-> 0]

\* line 142: env = UnityEnvironment(...)
MainCreateEnv ==
    /\ pc = "main_env"
    /\ envProc' = "open"
    /\ pc' = "main_reset"
    /\ UNCHANGED <<envModel, envResets, envT, envObs, params, runVars, stepVars,
                   ghostVars, mainVars>>

\* lines 145-160: the first reset, used to read the sizes
MainReset ==
    /\ pc = "main_reset"
    /\ \E o \in Observations : envObs' = o
    /\ envResets' = envResets + 1
    /\ envT' = 0
    /\ pc' = "main_agent"
    /\ UNCHANGED <<envProc, envModel, params, runVars, stepVars, ghostVars, mainVars>>

\* lines 162-174: agent = Agent(...)
MainAgent ==
    /\ pc = "main_agent"
    /\ pc' = "main_train"
    /\ UNCHANGED <<envVars, params, runVars, stepVars, ghostVars, mainVars>>

\* lines 176-180: the call of train_agent; max_t and success_thresh are not
\* passed and take their defaults
MainTrain ==
    /\ pc = "main_train"
    /\ n_episodes' = args.episodes
    /\ max_t' = DefaultMaxT
    /\ eps_start' = args.eps_start
    /\ eps_end' = args.eps_end
    /\ eps_decay' = args.eps_decay
    /\ success_thresh' = DefaultSuccessThresh
    /\ pc' = "ta_call"
    /\ UNCHANGED <<envVars, runVars, stepVars, ghostVars, mainVars>>

\* lines 182-184: the output folder is created when it is missing
MainOutput ==
    /\ pc = "main_out"
    /\ output_is_dir' = TRUE
    /\ pc' = "main_save"
    /\ UNCHANGED <<envVars, params, runVars, stepVars, ghostVars, caller, args,
                   returned, saved, plotMark>>

\* line 186: torch.save(...)
MainSave ==
    /\ pc = "main_save"
    /\ saved' = TRUE
    /\ pc' = "main_close"
    /\ UNCHANGED <<envVars, params, runVars, stepVars, ghostVars, caller, args,
                   output_is_dir, returned, plotMark>>

\* line 188: env.close()
MainClose ==
    /\ pc = "main_close"
    /\ envProc' = "closed"
    /\ pc' = "main_plot"
    /\ UNCHANGED <<envModel, envResets, envT, envObs, params, runVars, stepVars,
                   ghostVars, mainVars>>

\* lines 191-192: plot_scores(scores, 100, args.success_threshold)
MainPlot ==
    /\ pc = "main_plot"
    /\ plotMark' = PlotScores(returned, WindowLen, args.success_threshold)
    /\ pc' = "main_savefig"
    /\ UNCHANGED <<envVars, params, runVars, stepVars, ghostVars, caller, args,
                   output_is_dir, returned, saved>>

\* line 193: fig.savefig(...)
MainSavefig ==
    /\ pc = "main_savefig"
    /\ pc' = "main_done"
    /\ UNCHANGED <<envVars, params, runVars, stepVars, ghostVars, mainVars>>

\* The places where a call can raise: the environment's constructor, reset and
\* step (the simulator fails to start or closes unexpectedly), the Agent's
\* constructor (a malformed configuration), mkdir, torch.save, and the
\* plotting calls.  Nothing in train.py catches an exception, so it ends the
\* run where it is raised.
CanRaise ==
    \/ pc \in {"main_env", "main_reset", "main_agent", "ta_envstep", "main_save",
               "main_plot", "main_savefig"}
    \/ pc = "ta_loop" /\ i_episode < n_episodes
    \/ pc = "main_out" /\ ~output_is_dir

Raise ==
    /\ CanRaise
    /\ pc' = "raised"
    /\ UNCHANGED <<envVars, params, runVars, stepVars, ghostVars, mainVars>>

\* ------------------------------------------------------------- the runs
\* The environments of the long runs, with one-step episodes: "late" pays -1 in
\* the first episode and 1 afterwards; "peak" pays 0 until the window is full,
\* then 4 for a quarter of a window, then -4.
LateEnv == StubEnv(1, 1, -1, -1, 1)
PeakEnv == StubEnv(WindowLen, WindowLen + WindowLen \div 4, 0, 4, -4)
\* the stub of the end-to-end scenario: reward 1, done after one step
OnesEnv == StubEnv(0, 0, 0, 0, 1)

Thresholds == {1, 2}

\* the values common to every initial state
InitCommon ==
    /\ envResets = 0 /\ envT = 0 /\ envObs = 0
    /\ scores = <<>> /\ scores_window = <<>> /\ eps = 0 /\ success = FALSE
    /\ i_episode = 0
    /\ state = 0 /\ score = 0 /\ t = 0 /\ action = 0 /\ next_state = 0
    /\ reward = 0 /\ done = FALSE
    /\ solvedMsgs = <<>> /\ epRewards = <<>> /\ lastCall = NoCall /\ prevCall = NoCall
    /\ nCalls = 0
    /\ returned = <<>> /\ saved = FALSE /\ plotMark = NoMark

\* train_agent called directly on an environment that is already open
InitDirect ==
    /\ pc = "ta_call" /\ caller = "direct" /\ args = NoArgs
    /\ output_is_dir = FALSE /\ envProc = "open"

\* epsilon parameters: 0 <= eps_end <= eps_start <= 1 and 0 <= eps_decay <= 1
\* (eps_end is "the minimum value of epsilon", eps_decay the "factor for
\* decreasing epsilon")
EpsChoices ==
    {c \in [start : 0..EpsUnits, end : 0..EpsUnits, decay : 0..EpsUnits] :
        c.end <= c.start}
EpsUsual == [start |-> EpsUnits, end |-> 1, decay |-> EpsUnits - 1]

\* any rewards, any done signals, episodes cut by max_t
InitFree ==
    /\ InitDirect
    /\ envModel = FreeEnv(MaxT + 1)
    /\ n_episodes = MaxEpisodes
    /\ max_t \in 1..MaxT
    /\ success_thresh \in Thresholds
    /\ eps_start = EpsUsual.start /\ eps_end = EpsUsual.end
    /\ eps_decay = EpsUsual.decay

\* the end-to-end stub scenario, for every episode count and threshold
InitStub ==
    /\ InitDirect
    /\ envModel = OnesEnv
    /\ n_episodes \in 0..(MaxEpisodes + 2)
    /\ max_t \in 1..MaxT
    /\ success_thresh \in Thresholds
    /\ eps_start = EpsUsual.start /\ eps_end = EpsUsual.end
    /\ eps_decay = EpsUsual.decay

\* the stub scenario under every epsilon schedule
InitEps ==
    /\ InitDirect
    /\ envModel = OnesEnv
    /\ n_episodes = MaxEpisodes + 2
    /\ max_t = 1
    /\ success_thresh = 1
    /\ \E c \in EpsChoices :
        eps_start = c.start /\ eps_end = c.end /\ eps_decay = c.decay

\* runs longer than the window
InitLong ==
    /\ InitDirect
    /\ envModel \in {LateEnv, PeakEnv}
    /\ n_episodes = WindowLen + LongExtra
    /\ max_t = 1
    /\ success_thresh = 1
    /\ eps_start = EpsUsual.start /\ eps_end = EpsUsual.end
    /\ eps_decay = EpsUsual.decay

\* a run of the script: main(args)
InitMain ==
    /\ pc = "main_env" /\ caller = "main"
    /\ args \in [success_threshold : {1, DefaultSuccessThresh},
                 episodes : 1..(MaxEpisodes - 1),
                 eps_start : {EpsUsual.start}, eps_end : {EpsUsual.end},
                 eps_decay : {EpsUsual.decay}]
    /\ output_is_dir \in BOOLEAN
    /\ envProc = "none"
    /\ envModel \in {FreeEnv(MaxT), StubEnv(0, 0, 0, 0, DefaultSuccessThresh)}
    /\ n_episodes = 0 /\ max_t = 0 /\ eps_start = 0 /\ eps_end = 0
    /\ eps_decay = 0 /\ success_thresh = 0

Init ==
    /\ InitCommon
    /\ \/ InitFree
       \/ InitStub
       \/ InitEps
       \/ InitLong
       \/ InitMain

Next ==
    \/ TrainAgentBegin
    \/ EpisodeReset
    \/ Act
    \/ StepsExhausted
    \/ EnvStep
    \/ AgentStep
    \/ EpisodeEnd
    \/ Return
    \/ MainCreateEnv
    \/ MainReset
    \/ MainAgent
    \/ MainTrain
    \/ MainOutput
    \/ MainSave
    \/ MainClose
    \/ MainPlot
    \/ MainSavefig
    \/ Raise

Spec == Init /\ [][Next]_vars

\* ------------------------------------------------------------ the claims
InEpisode == pc \in {"ta_inner", "ta_envstep", "ta_agentstep", "ta_end"}
InTraining == pc = "ta_loop" \/ InEpisode

\* claim-side arithmetic, independent of the operators of the model
RECURSIVE ClaimSum(_, _)
ClaimSum(s, i) == IF i = 0 THEN 0 ELSE ClaimSum(s, i - 1) + s[i]
ClaimTotal(s) == ClaimSum(s, Len(s))
\* the last min(k, 100) of the first k scores
ClaimWindow(sc, k) == SubSeq(sc, IF k > 100 THEN k - 99 ELSE 1, k)
\* the episodes at whose end the mean of the window reaches the threshold
ClaimHits(sc, th) ==
    {k \in 1..Len(sc) :
        ClaimTotal(ClaimWindow(sc, k)) >= th * Len(ClaimWindow(sc, k))}
ClaimFirst(S) == CHOOSE k \in S : \A j \in S : k <= j

\* C1: once the solved flag is set it stays set in every later step of the
\* run, whatever the window mean does, and 'Solved in ...' is written at most
\* once.
C1_SolvedIsSticky ==
    [][(success => success') /\ Len(solvedMsgs') <= 1]_vars

\* C1 witness: the flag is set and, after a later episode, the window mean is
\* below the threshold.
C1_Witness ==
    /\ pc = "ta_loop"
    /\ success
    /\ Len(solvedMsgs) = 1
    /\ solvedMsgs[1] < i_episode
    /\ ClaimTotal(scores_window) < success_thresh * Len(scores_window)

\* C2: between episodes, the flag is set and the notification was written for
\* episode E exactly when E is the first episode at whose end the mean of the
\* window reached success_thresh; when there is no such episode the flag is
\* unset and nothing was written.  In the stub run where every episode scores
\* 1, a notification is written only if success_thresh <= 1.
C2_SolvedAtFirstCrossing ==
    /\ pc \in {"ta_loop", "ta_returned"} =>
        LET hits == ClaimHits(scores, success_thresh)
        IN  /\ success <=> (hits # {})
            /\ solvedMsgs = IF hits = {} THEN <<>> ELSE <<ClaimFirst(hits)>>
    /\ (pc = "ta_returned" /\ envModel = OnesEnv /\ n_episodes > 0) =>
        /\ \A k \in 1..Len(returned) : returned[k] = 1
        /\ (solvedMsgs # <<>>) <=> (success_thresh <= 1)

\* C2 witness: the run was solved at an episode later than the first, the
\* mean having been below the threshold before.
C2_Witness ==
    /\ pc = "ta_loop"
    /\ success
    /\ solvedMsgs # <<>>
    /\ solvedMsgs[1] > 1
    /\ solvedMsgs[1] = i_episode

\* C3: during training eps_end <= eps <= eps_start, no step increases eps,
\* and eps changes only at the end of an episode, to
\* max(eps_end, eps_decay * eps).
C3_EpsilonSchedule ==
    [][/\ InTraining' => (eps_end' <= eps' /\ eps' <= eps_start')
       /\ InTraining => eps' <= eps
       /\ (InTraining /\ eps' # eps) => pc = "ta_end"
       /\ (pc = "ta_end" /\ pc' = "ta_loop") =>
            \/ eps' = eps_end /\ 2 * eps_decay * eps <= (2 * eps_end + 1) * EpsUnits
            \/ /\ eps' > eps_end
               /\ 2 * eps_decay * eps >= (2 * eps' - 1) * EpsUnits
               /\ 2 * eps_decay * eps <= (2 * eps' + 1) * EpsUnits]_vars

\* C3 witness: epsilon has decayed below eps_start and the floor is what
\* holds it: the product eps_decay * eps is below eps_end.
C3_Witness ==
    /\ pc = "ta_loop"
    /\ i_episode >= 2
    /\ eps = eps_end
    /\ eps < eps_start
    /\ eps_decay * eps < eps_end * EpsUnits

\* C4: a run of main that created the environment never ends without
\* env.close() having been called.
C4_EnvClosedOnEveryExit ==
    (caller = "main" /\ pc \in {"raised", "main_done"} /\ envProc # "none")
        => envProc = "closed"

\* C5: after k completed episodes the history holds k scores, in episode
\* order; train_agent returns only after n_episodes episodes and returns the
\* whole history, solved or not.
C5_FullHistory ==
    /\ InEpisode => Len(scores) = i_episode - 1
    /\ pc = "ta_loop" => (Len(scores) = i_episode /\ i_episode <= n_episodes)
    /\ (pc = "ta_loop" /\ i_episode > 0) =>
            scores[Len(scores)] = ClaimTotal(epRewards)
    /\ (InTraining /\ caller = "direct" /\ envModel.kind = "stub") =>
            \A k \in 1..Len(scores) : scores[k] = StubReward(envModel, k)
    /\ pc = "ta_returned" => (returned = scores /\ Len(returned) = n_episodes)
    /\ pc \in {"main_out", "main_save", "main_close", "main_plot",
               "main_savefig", "main_done"} => Len(returned) = args.episodes

\* C5 witness: the run was solved before its last episode and still returned
\* all n_episodes scores.
C5_Witness ==
    /\ pc = "ta_returned"
    /\ success
    /\ solvedMsgs[1] < n_episodes
    /\ Len(returned) = n_episodes

\* C6: the window never holds more than 100 entries, and it holds the scores
\* of the last min(k, 100) episodes in order.
C6_WindowIsLast100 ==
    /\ Len(scores_window) <= 100
    /\ InTraining =>
        LET k == Len(scores)
            m == IF k > 100 THEN 100 ELSE k
        IN  scores_window = SubSeq(scores, k - m + 1, k)

\* C6 witness: more than 100 episodes are over, the window is full and the
\* first score of the run (-1) is no longer in it.
C6_Witness ==
    /\ Len(scores) > 100
    /\ Len(scores_window) = 100
    /\ scores[1] = -1
    /\ \A k \in 1..Len(scores_window) : scores_window[k] = 1

\* C7: an episode takes between 1 and max_t steps, no step follows a step
\* whose done signal was true, and the score is the sum of the rewards of the
\* steps taken.
C7_EpisodeSteps ==
    /\ pc \in {"ta_inner", "ta_envstep"} =>
        /\ t = Len(epRewards) /\ envT = t
        /\ score = ClaimTotal(epRewards)
        /\ t > 0 => ~done
    /\ pc = "ta_envstep" => t < max_t
    /\ pc = "ta_agentstep" => (Len(epRewards) = t + 1 /\ t + 1 <= max_t)
    /\ pc = "ta_end" =>
        /\ 1 <= t /\ t <= max_t
        /\ t = Len(epRewards) /\ envT = t
        /\ score = ClaimTotal(epRewards)
        /\ done \/ t = max_t
    /\ (pc = "ta_loop" /\ i_episode > 0) =>
        /\ scores[Len(scores)] = ClaimTotal(epRewards)
        /\ 1 <= Len(epRewards) /\ Len(epRewards) <= max_t

\* C7 witness: an episode ended on a done signal with steps of max_t left.
C7_Witness ==
    /\ pc = "ta_end"
    /\ done
    /\ t < max_t
    /\ score = 1

\* C8: the calls alternate env.reset, then agent.act -> env.step -> agent.step
\* for every step; act and step receive the observation the environment
\* returned last before the step, step receives the action act returned and
\* what env.step answered, and eps does not change within an episode.
C8_CallProtocol ==
    [][/\ (InEpisode /\ InEpisode') => eps' = eps
       /\ nCalls' # nCalls =>
            /\ nCalls' = nCalls + 1
            /\ <<lastCall.fn, lastCall'.fn>> \in
                 {<<"none", "env.reset">>, <<"env.reset", "agent.act">>,
                  <<"agent.act", "env.step">>, <<"env.step", "agent.step">>,
                  <<"agent.step", "agent.act">>, <<"agent.step", "env.reset">>}
            /\ lastCall'.fn = "agent.act" =>
                 (lastCall'.state = envObs /\ lastCall'.eps = eps)
            /\ lastCall'.fn = "env.step" => lastCall'.action = action
            /\ lastCall'.fn = "agent.step" =>
                 /\ lastCall'.state = prevCall.state
                 /\ lastCall'.action = lastCall.action
                 /\ lastCall'.next_state = envObs
                 /\ lastCall'.reward = epRewards[Len(epRewards)]
                 /\ lastCall'.done = done]_vars

\* C8 witness: the second step of a later episode has called agent.act with
\* the observation the first env.step returned.
C8_Witness ==
    /\ pc = "ta_envstep"
    /\ i_episode >= 2
    /\ t = 1
    /\ lastCall.fn = "agent.act"
    /\ lastCall.state = 1
    /\ prevCall.fn = "agent.step"
    /\ prevCall.state = 0

\* C9: in a run started through main, train_agent compares the window mean
\* against the configured --success-threshold.
C9_ThresholdForwarded ==
    (caller = "main" /\ InTraining) => success_thresh = args.success_threshold

\* C10: plot_scores, on the scores and the threshold of a train_agent run,
\* marks a success episode exactly when the run was solved, and marks the
\* episode at which it was solved.
C10_PlotMarksSolvedEpisode ==
    pc = "ta_returned" =>
        LET m == PlotScores(scores, WindowLen, success_thresh)
        IN  /\ m.marked <=> success
            /\ success => m.x = solvedMsgs[1]

====
